---- MODULE Spec2Model ----
(***************************************************************************)
(* A model of the three exercises of python_module05:                      *)
(*   ex2/nexus_pipeline.py   pipelines, stages and the NexusManager        *)
(*   ex0/stream_processor.py the Numeric/Text/Log processors               *)
(*   ex1/data_stream.py      the Sensor/Transaction/Event streams          *)
(* Every handler is one action; what a handler prints, calls, returns or   *)
(* raises is recorded in the record of the most recent operation.          *)
(***************************************************************************)
EXTENDS Integers, Sequences, FiniteSets, TLC

VARIABLES
    pipelines,   \* NexusManager.pipelines: the registered pipelines, in order
    run,         \* the most recent NexusManager operation and what it did
    pip,         \* one ProcessingPipeline object: its class and its stages
    pipRun,      \* the most recent operation on pip and what it did
    procData,    \* ex0: the data handed to a DataProcessor
    procRun,     \* ex0: the most recent validate/process call and its outcome
    batch,       \* ex1: the data_batch handed to a DataStream
    streamRun,   \* ex1: the most recent stream call and its outcome
    streamData   \* ex1: the dict of batches handed to polymorphic_process

vars ==
    <<pipelines, run, pip, pipRun, procData, procRun, batch, streamRun,
      streamData>>

(***************************************************************************)
(* Bounds of the model.                                                    *)
(***************************************************************************)
MaxPipelines == 3
MaxStages == 3
MaxLen == 3
MaxTextLen == 3
MaxItems == 3
MaxBatch == 3

(***************************************************************************)
(* Python values handed to ex2.  A value is [t, n, elems]: t is its type,  *)
(* n the number of an int, elems the characters of a str, the items of a   *)
(* list, the keys of a dict or the members of a set.  The items of a list  *)
(* are strings of at most one unit ("" is the empty string).               *)
(***************************************************************************)
Val(t, n, elems) == [t |-> t, n |-> n, elems |-> elems]

PyNone == Val("none", 0, <<>>)

PyStr(chars) == Val("str", 0, chars)

SeqsUpTo(S, k) == UNION {[1..m -> S] : m \in 0..k}

\* The first characters of main's CSV record; a str record is a prefix of it.
RecordChars == <<"u", "s", "e", "r", ",", "a", "c", "t">>

Tokens == {"x", ""}

KeyNames == <<"sensor", "value", "unit", "extra">>

Strs == {PyStr(SubSeq(RecordChars, 1, m)) : m \in 0..MaxLen}

Lists == {Val("list", 0, e) : e \in SeqsUpTo(Tokens, MaxLen)}

Dicts == {Val("dict", 0, SubSeq(KeyNames, 1, m)) : m \in {0, 1, MaxLen}}

Sets == {Val("set", 0, SubSeq(KeyNames, 1, m)) : m \in {1, 2}}

Numbers == {Val("int", 5, <<>>)}

DataValues == {PyNone} \cup Numbers \cup Strs \cup Lists \cup Dicts \cup Sets

\* An item of a list: the string its token stands for.
ItemOf(tok) == PyStr(IF tok = "" THEN <<>> ELSE <<tok>>)

\* len(data) is defined for the sized types; for the others it raises TypeError.
HasLen(d) == d.t \in {"str", "list", "dict", "set"}

PyLen(d) == Len(d.elems)

\* bool(data)
Truthy(d) ==
    CASE d.t = "none" -> FALSE
      [] d.t = "int" -> d.n # 0
      [] OTHER -> Len(d.elems) > 0

\* data[i] for an int i >= 0: the exception it raises ("none" when it
\* returns) and the value it returns.
GetItem(d, i) ==
    CASE d.t = "str" ->
           IF i < Len(d.elems)
           THEN [exc |-> "none", val |-> PyStr(<<d.elems[i + 1]>>)]
           ELSE [exc |-> "IndexError", val |-> PyNone]
      [] d.t = "list" ->
           IF i < Len(d.elems)
           THEN [exc |-> "none", val |-> ItemOf(d.elems[i + 1])]
           ELSE [exc |-> "IndexError", val |-> PyNone]
      [] d.t = "dict" -> [exc |-> "KeyError", val |-> PyNone]
      [] OTHER -> [exc |-> "TypeError", val |-> PyNone]

(***************************************************************************)
(* Stages.                                                                 *)
(***************************************************************************)
StageKinds == {"InputStage", "TransformStage", "OutputStage"}

\* str(data), as far as its emptiness goes: never the empty string for a
\* value that is not a str.
StrOf(d) ==
    CASE d.t = "str" -> d.elems
      [] d.t = "none" -> <<"None">>
      [] d.t = "int" -> <<"int">>
      [] d.t = "list" -> <<"[">> \o d.elems \o <<"]">>
      [] OTHER -> <<"{">> \o d.elems \o <<"}">>

InputStage(data) == IF ~Truthy(data) \/ data = PyNone THEN PyNone ELSE data

TransformStage(data) == data

OutputStage(data) == PyStr(<<"Output ">> \o StrOf(data))

StageProcess(stage, data) ==
    CASE stage = "InputStage" -> InputStage(data)
      [] stage = "TransformStage" -> TransformStage(data)
      [] OTHER -> OutputStage(data)

(***************************************************************************)
(* Pipelines.                                                              *)
(***************************************************************************)
\* The three adapters of the source, a subclass that delegates to the body
\* of ProcessingPipeline.process ("Base"), and a subclass whose process
\* raises ValueError, the exception NexusManager.process_data handles.
AdapterKinds == {"JSONAdapter", "CSVAdapter", "StreamAdapter"}

RaisingKinds == {"ValueError"}

PipelineKinds == AdapterKinds \cup {"Base"} \cup RaisingKinds

\* ProcessingPipeline.__init__
NewPipeline(kind) == [kind |-> kind, stages |-> <<>>]

\* ProcessingPipeline.add_stage
AddStage(p, stage) == [p EXCEPT !.stages = p.stages \o <<stage>>]

\* The stages main() adds to every pipeline it registers.
MainStages == <<"InputStage", "TransformStage", "OutputStage">>

RECURSIVE AddStages(_, _, _)
AddStages(p, stages, k) ==
    IF k > Len(stages) THEN p
    ELSE AddStages(AddStage(p, stages[k]), stages, k + 1)

\* A pipeline built as main() builds it: constructed, then given its stages.
MainPipeline(kind) == AddStages(NewPipeline(kind), MainStages, 1)

\* ProcessingPipeline.process: the loop over self.stages from stage k on.
\* Every stage gets the same data; the first falsy result raises ValueError,
\* which the method catches, prints and turns into None.
RECURSIVE BaseLoop(_, _, _, _)
BaseLoop(stages, data, k, called) ==
    IF k > Len(stages)
    THEN [exc |-> "none", ret |-> PyNone, stageCalls |-> called,
          stageErr |-> 0, adapter |-> FALSE]
    ELSE IF ~Truthy(StageProcess(stages[k], data))
         THEN [exc |-> "none", ret |-> PyNone,
               stageCalls |-> Append(called, k),
               stageErr |-> k, adapter |-> FALSE]
         ELSE BaseLoop(stages, data, k + 1, Append(called, k))

BaseProcess(p, data) == BaseLoop(p.stages, data, 1, <<>>)

\* JSONAdapter.process, CSVAdapter.process, StreamAdapter.process: print the
\* adapter's narrative and return the data; self.stages is not read.
AdapterProcess(p, data) ==
    [exc |-> "none", ret |-> data, stageCalls |-> <<>>, stageErr |-> 0,
     adapter |-> TRUE]

RaisingProcess(p, data) ==
    [exc |-> p.kind, ret |-> PyNone, stageCalls |-> <<>>, stageErr |-> 0,
     adapter |-> FALSE]

\* pipeline.process(data), dispatched on the class of the pipeline.
PipelineProcess(p, data) ==
    CASE p.kind \in AdapterKinds -> AdapterProcess(p, data)
      [] p.kind = "Base" -> BaseProcess(p, data)
      [] OTHER -> RaisingProcess(p, data)

(***************************************************************************)
(* NexusManager.process_data                                               *)
(***************************************************************************)
NoDataMsg == "Error. No data received"

Outcome(calls, printed, raised) ==
    [calls |-> calls, printed |-> printed, raised |-> raised]

\* Unwind without the outer handler: a TypeError escapes process_data.
UnwindNoOuterHandler(exc, calls) ==
    CASE exc = "ValueError" -> Outcome(calls, <<>>, "none")
      [] OTHER -> Outcome(calls, <<>>, exc)

\* What an exception raised inside the inner try does to process_data:
\* ValueError is caught by the inner handler, which returns; TypeError passes
\* to the outer handler, which prints; anything else escapes.
Unwind(exc, calls) ==
    CASE exc = "ValueError" -> Outcome(calls, <<>>, "none")
      [] exc = "TypeError" -> Outcome(calls, <<NoDataMsg>>, "none")
      [] OTHER -> Outcome(calls, <<>>, exc)

Call(k, arg, r) ==
    [idx |-> k, arg |-> arg, exc |-> r.exc, ret |-> r.ret,
     stageErr |-> r.stageErr]

\* The loop of the len(data) > 1 branch, at pipeline k with i = k - 1.
RECURSIVE PositionalLoop(_, _, _, _)
PositionalLoop(ps, data, k, calls) ==
    IF k > Len(ps)
    THEN Outcome(calls, <<>>, "none")
    ELSE LET item == GetItem(data, k - 1)
         IN IF item.exc # "none"
            THEN Unwind(item.exc, calls)
            ELSE LET r == PipelineProcess(ps[k], item.val)
                     now == Append(calls, Call(k, item.val, r))
                 IN IF r.exc # "none"
                    THEN Unwind(r.exc, now)
                    ELSE PositionalLoop(ps, data, k + 1, now)

\* The loop of the else branch.
RECURSIVE BroadcastLoop(_, _, _, _)
BroadcastLoop(ps, data, k, calls) ==
    IF k > Len(ps)
    THEN Outcome(calls, <<>>, "none")
    ELSE LET r == PipelineProcess(ps[k], data)
             now == Append(calls, Call(k, data, r))
         IN IF r.exc # "none"
            THEN Unwind(r.exc, now)
            ELSE BroadcastLoop(ps, data, k + 1, now)

ProcessData(ps, data) ==
    IF ~HasLen(data)
    THEN Unwind("TypeError", <<>>)
    ELSE IF PyLen(data) > 1
         THEN PositionalLoop(ps, data, 1, <<>>)
         ELSE BroadcastLoop(ps, data, 1, <<>>)

(***************************************************************************)
(* ex0: the data processors.  An item of a list is [t, n, chars]: an int   *)
(* n, the float n + 0.5, a str of characters, a bool, or None.  The data   *)
(* handed to a processor is [t, n, chars, items]: None, an int, a str or a *)
(* list of items.                                                          *)
(***************************************************************************)
Atom(t, n, chars) == [t |-> t, n |-> n, chars |-> chars]

AtomInt(n) == Atom("int", n, <<>>)

AtomFloat(n) == Atom("float", n, <<>>)

AtomStr(chars) == Atom("str", 0, chars)

AtomNone == Atom("none", 0, <<>>)

AtomBool(b) == Atom("bool", IF b THEN 1 ELSE 0, <<>>)

ProcNone == [t |-> "none", n |-> 0, chars |-> <<>>, items |-> <<>>]

ProcInt(n) == [t |-> "int", n |-> n, chars |-> <<>>, items |-> <<>>]

ProcStr(chars) == [t |-> "str", n |-> 0, chars |-> chars, items |-> <<>>]

ProcList(items) == [t |-> "list", n |-> 0, chars |-> <<>>, items |-> items]

TextChars == {"1", "a", " ", ":", "-"}

\* main's log_data, shortened, and its "Error" spelling.
LogSamples ==
    {<<"E", "R", "R", "O", "R", ":", " ", "x">>,
     <<"E", "r", "r", "o", "r", ":", "x">>,
     <<"E", "R", "R", "O", "R">>}

ProcItems ==
    {AtomInt(1), AtomInt(-2), AtomFloat(1), AtomStr(<<"1">>), AtomStr(<<"a">>),
     AtomStr(<<":">>), AtomStr(<<"E", "R", "R", "O", "R">>), AtomNone}

ProcDataValues ==
    {ProcNone, ProcInt(5)}
        \cup {ProcStr(c) : c \in SeqsUpTo(TextChars, MaxTextLen) \cup LogSamples}
        \cup {ProcList(i) : i \in SeqsUpTo(ProcItems, MaxItems)}

\* The items a for loop over the data yields: the characters of a str, each
\* a str of length one, or the items of a list.
IterItems(d) ==
    IF d.t = "str" THEN [i \in 1..Len(d.chars) |-> AtomStr(<<d.chars[i]>>)]
    ELSE d.items

Iterable(d) == d.t \in {"str", "list"}

Digits == {"0", "1", "2", "3", "4", "5", "6", "7", "8", "9"}

RECURSIVE StripLeft(_)
StripLeft(c) == IF c # <<>> /\ Head(c) = " " THEN StripLeft(Tail(c)) ELSE c

RECURSIVE StripRight(_)
StripRight(c) ==
    IF c # <<>> /\ c[Len(c)] = " " THEN StripRight(SubSeq(c, 1, Len(c) - 1))
    ELSE c

\* int(s) for a str s succeeds when s, stripped of surrounding blanks, is an
\* optional sign followed by one or more digits.
IntParses(chars) ==
    LET body == StripRight(StripLeft(chars))
        digits == IF body # <<>> /\ Head(body) \in {"+", "-"}
                  THEN Tail(body) ELSE body
    IN /\ digits # <<>>
       /\ \A i \in 1..Len(digits) : digits[i] \in Digits

\* int(x): the exception it raises, "none" when it returns.
IntOf(x) ==
    CASE x.t \in {"int", "float", "bool"} -> "none"
      [] x.t = "str" -> IF IntParses(x.chars) THEN "none" ELSE "ValueError"
      [] OTHER -> "TypeError"

\* The outcome of a call: the exception that escapes it ("none" when it
\* returns) and the value it returns.
RetNone == [t |-> "none", b |-> FALSE, nums |-> <<>>, text |-> <<>>]

RetBool(b) == [t |-> "bool", b |-> b, nums |-> <<>>, text |-> <<>>]

RetStr(nums, text) == [t |-> "str", b |-> FALSE, nums |-> nums, text |-> text]

Returns(ret) == [exc |-> "none", ret |-> ret]

Raises(exc) == [exc |-> exc, ret |-> RetNone]

\* NumericProcessor.validate: int(number) for every item, in order.  Only
\* ValueError is caught.
RECURSIVE NumericValidateLoop(_, _)
NumericValidateLoop(items, k) ==
    IF k > Len(items) THEN Returns(RetBool(TRUE))
    ELSE LET e == IntOf(items[k])
         IN CASE e = "none" -> NumericValidateLoop(items, k + 1)
              [] e = "ValueError" -> Returns(RetBool(FALSE))
              [] OTHER -> Raises(e)

NumericValidate(d) ==
    IF ~Iterable(d) THEN Raises("TypeError")
    ELSE NumericValidateLoop(IterItems(d), 1)

\* Twice the number an item stands for (a float is n + 0.5).
Twice(x) == IF x.t = "float" THEN 2 * x.n + 1 ELSE 2 * x.n

\* The summing loop of NumericProcessor.process: sum += number raises
\* TypeError when the item is a str.
RECURSIVE NumericSumLoop(_, _, _)
NumericSumLoop(items, k, sum2) ==
    IF k > Len(items) THEN [exc |-> "none", sum2 |-> sum2]
    ELSE IF items[k].t \notin {"int", "float", "bool"}
         THEN [exc |-> "TypeError", sum2 |-> sum2]
         ELSE NumericSumLoop(items, k + 1, sum2 + Twice(items[k]))

\* NumericProcessor.process.  The result text is fixed by the count and the
\* sum (nums holds the count and twice the sum); avg = sum / number_count
\* raises ZeroDivisionError for a count of 0.
NumericProcess(d) ==
    LET v == NumericValidate(d)
    IN IF v.exc # "none" THEN Raises(v.exc)
       ELSE IF ~v.ret.b THEN Returns(RetNone)
       ELSE LET items == IterItems(d)
                s == NumericSumLoop(items, 1, 0)
            IN IF s.exc # "none" THEN Raises(s.exc)
               ELSE IF Len(items) = 0 THEN Raises("ZeroDivisionError")
               ELSE Returns(RetStr(<<Len(items), s.sum2>>, <<>>))

\* TextProcessor.validate
TextValidate(d) == Returns(RetBool(d.t = "str"))

\* The counting loop of TextProcessor.process, at character k (ch_count is
\* k - 1): a word starts at the first non-blank and at every non-blank that
\* follows a blank.
RECURSIVE TextLoop(_, _, _)
TextLoop(c, k, words) ==
    IF k > Len(c) THEN words
    ELSE IF words = 0 /\ c[k] # " " THEN TextLoop(c, k + 1, words + 1)
    ELSE IF c[k] # " " /\ ~(c[k - 1] # " ") THEN TextLoop(c, k + 1, words + 1)
    ELSE TextLoop(c, k + 1, words)

\* TextProcessor.process (nums holds ch_count and word_count)
TextProcess(d) ==
    IF ~TextValidate(d).ret.b THEN Returns(RetNone)
    ELSE Returns(RetStr(<<Len(d.chars), TextLoop(d.chars, 1, 0)>>, <<>>))

\* LogProcessor.validate: iterates the data looking for ':'.
LogValidate(d) ==
    IF ~Iterable(d) THEN Raises("TypeError")
    ELSE Returns(RetBool(\E i \in 1..Len(IterItems(d)) :
                            IterItems(d)[i] = AtomStr(<<":">>)))

\* needle in data: a substring of a str, an item of a list.
Contains(d, needle) ==
    IF d.t = "str"
    THEN \E i \in 1..(Len(d.chars) - Len(needle) + 1) :
            SubSeq(d.chars, i, i + Len(needle) - 1) = needle
    ELSE \E i \in 1..Len(d.items) : d.items[i] = AtomStr(needle)

AlertText == <<"[ALERT] ERROR level detected">>

\* The copying loop of LogProcessor.process: from the first ':' on, every
\* item is appended to the result; result += ch raises TypeError when the
\* item is not a str.
RECURSIVE LogLoop(_, _, _, _)
LogLoop(items, k, found, result) ==
    IF k > Len(items) THEN Returns(RetStr(<<>>, result))
    ELSE LET now == found \/ items[k] = AtomStr(<<":">>)
         IN IF ~now THEN LogLoop(items, k + 1, now, result)
            ELSE IF items[k].t # "str" THEN Raises("TypeError")
            ELSE LogLoop(items, k + 1, now, result \o items[k].chars)

\* LogProcessor.process: validate runs inside try/except Exception.
LogProcess(d) ==
    LET v == LogValidate(d)
    IN IF v.exc # "none" \/ ~v.ret.b THEN Returns(RetNone)
       ELSE LogLoop(IterItems(d), 1, FALSE,
                    IF Contains(d, <<"E", "R", "R", "O", "R">>)
                       \/ Contains(d, <<"E", "r", "r", "o", "r">>)
                    THEN AlertText ELSE <<>>)

Processors == {"NumericProcessor", "TextProcessor", "LogProcessor"}

Validate(proc, d) ==
    CASE proc = "NumericProcessor" -> NumericValidate(d)
      [] proc = "TextProcessor" -> TextValidate(d)
      [] OTHER -> LogValidate(d)

Process(proc, d) ==
    CASE proc = "NumericProcessor" -> NumericProcess(d)
      [] proc = "TextProcessor" -> TextProcess(d)
      [] OTHER -> LogProcess(d)

NoProcRun == [op |-> "init", proc |-> "none", exc |-> "none", ret |-> RetNone]

(***************************************************************************)
(* ex1: the data streams.  A batch is a list of items [t, n, chars].       *)
(***************************************************************************)
ErrorWord == <<"e", "r", "r", "o", "r">>

LoginWord == <<"l", "o", "g", "i", "n">>

\* The bound of TransactionStream.filter_data.
TxLimit == 10000

StreamItems ==
    {AtomInt(-TxLimit), AtomInt(-150), AtomInt(0), AtomInt(75),
     AtomInt(TxLimit), AtomFloat(22), AtomStr(ErrorWord), AtomStr(LoginWord),
     AtomNone, AtomBool(TRUE)}

\* The three batches of main().
MainBatches ==
    {<<AtomFloat(22), AtomInt(65), AtomInt(1013)>>,
     <<AtomInt(100), AtomInt(-150), AtomInt(75), AtomInt(4), AtomInt(35),
       AtomStr(<<"2">>), AtomStr(<<"e">>), AtomInt(143540), AtomInt(-2000),
       AtomStr(<<"t">>), AtomInt(-20), AtomInt(2)>>,
     <<AtomStr(LoginWord), AtomStr(ErrorWord),
       AtomStr(<<"l", "o", "g", "o", "u", "t">>)>>}

Batches == SeqsUpTo(StreamItems, MaxBatch) \cup MainBatches

\* ft_len
ft_len(it) == Len(it)

\* isinstance(x, str), isinstance(x, (int, float)), isinstance(x, int): a
\* bool is an int.
IsStr(x) == x.t = "str"

IsNumber(x) == x.t \in {"int", "float", "bool"}

IsInt(x) == x.t \in {"int", "bool"}

\* DataStream.filter_data
DataStreamFilter(b, criteria) ==
    CASE criteria = "string" -> SelectSeq(b, IsStr)
      [] criteria = "number" -> SelectSeq(b, IsNumber)
      [] criteria = "int" -> SelectSeq(b, IsInt)
      [] OTHER -> b

DigitChar(d) == <<"0", "1", "2", "3", "4", "5", "6", "7", "8", "9">>[d + 1]

RECURSIVE NatChars(_)
NatChars(n) ==
    IF n < 10 THEN <<DigitChar(n)>>
    ELSE NatChars(n \div 10) \o <<DigitChar(n % 10)>>

\* str(n) for an int n
IntChars(n) == IF n < 0 THEN <<"-">> \o NatChars(-n) ELSE NatChars(n)

\* str(x) for an item, as an f-string renders it (the float n + 0.5).
ItemChars(x) ==
    CASE x.t = "int" -> IntChars(x.n)
      [] x.t = "float" ->
           (IF x.n < 0 THEN <<"-">> \o NatChars(-x.n - 1) ELSE NatChars(x.n))
               \o <<".", "5">>
      [] x.t = "bool" -> IF x.n = 1 THEN <<"True">> ELSE <<"False">>
      [] x.t = "none" -> <<"None">>
      [] OTHER -> x.chars

\* The check for negative units left out.
NeverNegative(x) == FALSE

\* x < 0 for a number x
Negative(x) == x.n < 0

\* SensorStream.filter_data: raises ValueError at the first item that is not
\* a number or is negative; msg is the text of the exception.
RECURSIVE SensorFilter(_, _)
SensorFilter(b, k) ==
    IF k > Len(b) THEN [exc |-> "none", msg |-> ""]
    ELSE IF ~IsNumber(b[k])
         THEN [exc |-> "ValueError",
               msg |-> "Invalid data, please enter only numbers"]
    ELSE IF Negative(b[k])
         THEN [exc |-> "ValueError", msg |-> "Units can't be negative"]
    ELSE SensorFilter(b, k + 1)

StreamOut(exc, out, nums, avg, text) ==
    [exc |-> exc, out |-> out, nums |-> nums, avg |-> avg, text |-> text]

NeedMsg == "need temperature, humidity and pressure"

\* SensorStream.process_batch (nums holds count)
SensorProcessBatch(b) ==
    IF ft_len(b) # 3
    THEN StreamOut("none", <<>>, <<>>, AtomNone,
                   <<"Error: ", NeedMsg, " for processing.">>)
    ELSE LET f == SensorFilter(b, 1)
         IN IF f.exc # "none"
            THEN StreamOut("none", <<>>, <<>>, AtomNone, <<"Error: ", f.msg>>)
            ELSE StreamOut("none", <<>>, <<Len(b)>>, b[1],
                           <<"Sensor analysis: ">> \o IntChars(Len(b))
                               \o <<" readings processed, avg temp: ">>
                               \o ItemChars(b[1]))

\* x != 0 and x > -10000 and x < 10000, as Python evaluates it: comparing a
\* str or None with an int raises TypeError.
RangeKeep(x) ==
    IF ~IsNumber(x) THEN "TypeError"
    ELSE IF Twice(x) # 0 /\ Twice(x) > 2 * (-TxLimit) /\ Twice(x) < 2 * TxLimit
         THEN "keep" ELSE "drop"

\* The condition without its isinstance(x, int) test.
TransactionKeepNoTypeTest(x) == RangeKeep(x)

\* The condition of TransactionStream.filter_data's comprehension.
TransactionKeep(x) == IF ~IsInt(x) THEN "drop" ELSE RangeKeep(x)

RECURSIVE TransactionFilterLoop(_, _, _)
TransactionFilterLoop(b, k, kept) ==
    IF k > Len(b) THEN [exc |-> "none", out |-> kept]
    ELSE LET v == TransactionKeep(b[k])
         IN CASE v = "keep" -> TransactionFilterLoop(b, k + 1, Append(kept, b[k]))
              [] v = "drop" -> TransactionFilterLoop(b, k + 1, kept)
              [] OTHER -> [exc |-> v, out |-> <<>>]

\* TransactionStream.filter_data
TransactionFilter(b) == TransactionFilterLoop(b, 1, <<>>)

\* The two counting loops of TransactionStream.process_batch.
RECURSIVE NetFlow(_, _)
NetFlow(b, k) == IF k > Len(b) THEN 0 ELSE b[k].n + NetFlow(b, k + 1)

\* The sign with net_flow > 0 for net_flow >= 0.
FlowSignStrict(net_flow) == IF net_flow > 0 THEN <<"+">> ELSE <<>>

\* The sign put before the net flow.
FlowSign(net_flow) == IF net_flow >= 0 THEN <<"+">> ELSE <<>>

\* TransactionStream.process_batch (nums holds op_count and net_flow)
TransactionProcessBatch(b) ==
    LET f == TransactionFilter(b)
    IN IF f.exc # "none" THEN StreamOut(f.exc, <<>>, <<>>, AtomNone, <<>>)
       ELSE LET op_count == Len(f.out)
                net_flow == NetFlow(f.out, 1)
            IN StreamOut("none", f.out, <<op_count, net_flow>>, AtomNone,
                         <<"Transaction analysis: ">> \o IntChars(op_count)
                             \o <<" operations, net flow: ">>
                             \o FlowSign(net_flow) \o IntChars(net_flow)
                             \o <<" units">>)

\* The error-counting loop of EventStream.process_batch.
RECURSIVE ErrorCount(_, _)
ErrorCount(b, k) ==
    IF k > Len(b) THEN 0
    ELSE (IF b[k] = AtomStr(ErrorWord) THEN 1 ELSE 0) + ErrorCount(b, k + 1)

\* The word after a count with the test for 0 left out.
PluralAboveOne(count, word) ==
    IF count > 1 THEN <<" ", word, "s">> ELSE <<" ", word>>

\* The word after a count: plural for 0 and for more than 1.
Plural(count, word) ==
    IF count = 0 \/ count > 1 THEN <<" ", word, "s">> ELSE <<" ", word>>

\* EventStream.process_batch (nums holds event_count and error_count)
EventProcessBatch(b) ==
    LET data_batch == DataStreamFilter(b, "string")
        event_count == Len(data_batch)
        error_count == ErrorCount(data_batch, 1)
    IN StreamOut("none", data_batch, <<event_count, error_count>>, AtomNone,
                 <<"Event analysis: ">> \o IntChars(event_count)
                     \o Plural(event_count, "event") \o <<", ">>
                     \o IntChars(error_count) \o Plural(error_count, "error")
                     \o <<" detected">>)

\* The dict main() hands to polymorphic_process, with the batch under each
\* of its three keys.
DataOf(b) == [Sensor |-> b, Transaction |-> b, Event |-> b]

\* The criteria of DataStream.filter_data; "none" is the default, None.
Criteria == {"string", "number", "int", "none"}

\* The count with its operands swapped.
RejectedCountSwapped(len, filtered_len) == filtered_len - len

\* event_filtered += len - filtered_len and
\* transasction_filtered += len - filtered_len
RejectedCount(len, filtered_len) == len - filtered_len

\* StreamProcessor.polymorphic_process(data, streams) with the streams in
\* main's order, [sensor, transaction, event]: the Transaction and Event
\* entries of data are replaced by their filtered batches and every entry is
\* counted.  nums holds the three operation counts, then
\* transasction_filtered and event_filtered.
PolymorphicProcess(d) ==
    LET t == TransactionFilter(d.Transaction)
        e == DataStreamFilter(d.Event, "string")
        transasction_filtered ==
            0 + RejectedCount(ft_len(d.Transaction), ft_len(t.out))
        event_filtered == 0 + RejectedCount(ft_len(d.Event), ft_len(e))
    IN IF t.exc # "none"
       THEN [exc |-> t.exc, data |-> d, nums |-> <<>>]
       ELSE [exc |-> "none",
             data |-> [Sensor |-> d.Sensor, Transaction |-> t.out,
                       Event |-> e],
             nums |-> <<ft_len(d.Sensor), ft_len(t.out), ft_len(e),
                        transasction_filtered, event_filtered>>]

NoStreamRun ==
    [op |-> "init", exc |-> "none", out |-> <<>>, nums |-> <<>>,
     avg |-> AtomNone, text |-> <<>>]

Ran(op, o) ==
    [op |-> op, exc |-> o.exc, out |-> o.out, nums |-> o.nums, avg |-> o.avg,
     text |-> o.text]

(***************************************************************************)
(* The manager as a state machine.                                         *)
(***************************************************************************)
NoRun == [op |-> "init", data |-> PyNone, before |-> <<>>,
          calls |-> <<>>, printed |-> <<>>, raised |-> "none"]

NoPipRun == [op |-> "init", data |-> PyNone, exc |-> "none", ret |-> PyNone,
             stageCalls |-> <<>>, stageErr |-> 0, adapter |-> FALSE]

Init ==
    /\ pipelines = <<>>
    /\ run = NoRun
    /\ pip = NewPipeline("JSONAdapter")
    /\ pipRun = NoPipRun
    /\ procData = ProcNone
    /\ procRun = NoProcRun
    /\ batch = <<>>
    /\ streamRun = NoStreamRun
    /\ streamData = DataOf(<<>>)

\* NexusManager.add_pipeline
add_pipeline(p) ==
    /\ Len(pipelines) < MaxPipelines
    /\ pipelines' = pipelines \o <<p>>
    /\ run' = [NoRun EXCEPT !.op = "add_pipeline", !.before = pipelines]
    /\ UNCHANGED <<pip, pipRun, procData, procRun, batch, streamRun,
                   streamData>>

\* NexusManager.process_data
process_data(data) ==
    /\ LET o == ProcessData(pipelines, data)
       IN run' = [op |-> "process_data", data |-> data, before |-> pipelines,
                  calls |-> o.calls, printed |-> o.printed,
                  raised |-> o.raised]
    /\ UNCHANGED <<pipelines, pip, pipRun, procData, procRun, batch,
                   streamRun, streamData>>

Next ==
    \/ \E k \in PipelineKinds : add_pipeline(MainPipeline(k))
    \/ \E d \in DataValues : process_data(d)

Spec == Init /\ [][Next]_vars

(***************************************************************************)
(* One pipeline as a state machine: stages are added, records processed.   *)
(***************************************************************************)
InitPipeline ==
    /\ pipelines = <<>>
    /\ run = NoRun
    /\ pip \in {NewPipeline(k) : k \in AdapterKinds \cup {"Base"}}
    /\ pipRun = NoPipRun
    /\ procData = ProcNone
    /\ procRun = NoProcRun
    /\ batch = <<>>
    /\ streamRun = NoStreamRun
    /\ streamData = DataOf(<<>>)

\* ProcessingPipeline.add_stage
add_stage(stage) ==
    /\ Len(pip.stages) < MaxStages
    /\ pip' = AddStage(pip, stage)
    /\ pipRun' = [NoPipRun EXCEPT !.op = "add_stage"]
    /\ UNCHANGED <<pipelines, run, procData, procRun, batch,
                   streamRun, streamData>>

\* pipeline.process(data)
process(data) ==
    /\ LET r == PipelineProcess(pip, data)
       IN pipRun' = [op |-> "process", data |-> data, exc |-> r.exc,
                     ret |-> r.ret, stageCalls |-> r.stageCalls,
                     stageErr |-> r.stageErr, adapter |-> r.adapter]
    /\ UNCHANGED <<pipelines, run, pip, procData, procRun, batch,
                   streamRun, streamData>>

NextPipeline ==
    \/ \E s \in StageKinds : add_stage(s)
    \/ \E d \in DataValues : process(d)

SpecPipeline == InitPipeline /\ [][NextPipeline]_vars

(***************************************************************************)
(* ex0 as a state machine: a processor validates or processes the data.    *)
(***************************************************************************)
InitProcessor ==
    /\ pipelines = <<>>
    /\ run = NoRun
    /\ pip = NewPipeline("JSONAdapter")
    /\ pipRun = NoPipRun
    /\ procData \in ProcDataValues
    /\ procRun = NoProcRun
    /\ batch = <<>>
    /\ streamRun = NoStreamRun
    /\ streamData = DataOf(<<>>)

\* processor.validate(data)
validate(proc) ==
    /\ LET r == Validate(proc, procData)
       IN procRun' = [op |-> "validate", proc |-> proc, exc |-> r.exc,
                      ret |-> r.ret]
    /\ UNCHANGED <<pipelines, run, pip, pipRun, procData, batch,
                   streamRun, streamData>>

\* processor.process(data)
process_proc(proc) ==
    /\ LET r == Process(proc, procData)
       IN procRun' = [op |-> "process", proc |-> proc, exc |-> r.exc,
                      ret |-> r.ret]
    /\ UNCHANGED <<pipelines, run, pip, pipRun, procData, batch,
                   streamRun, streamData>>

NextProcessor ==
    \/ \E p \in Processors : validate(p)
    \/ \E p \in Processors : process_proc(p)

SpecProcessor == InitProcessor /\ [][NextProcessor]_vars

(***************************************************************************)
(* ex1 as a state machine: a stream is handed the batch.                   *)
(***************************************************************************)
InitStream ==
    /\ pipelines = <<>>
    /\ run = NoRun
    /\ pip = NewPipeline("JSONAdapter")
    /\ pipRun = NoPipRun
    /\ procData = ProcNone
    /\ procRun = NoProcRun
    /\ batch \in Batches
    /\ streamRun = NoStreamRun
    /\ streamData = DataOf(batch)

\* SensorStream.process_batch(batch)
sensor_process_batch ==
    /\ streamRun' = Ran("sensor_process_batch", SensorProcessBatch(batch))
    /\ UNCHANGED <<pipelines, run, pip, pipRun, procData, procRun,
                   batch, streamData>>

\* TransactionStream.filter_data(batch)
transaction_filter_data ==
    /\ LET f == TransactionFilter(batch)
       IN streamRun' = Ran("transaction_filter_data",
                           StreamOut(f.exc, f.out, <<>>, AtomNone, <<>>))
    /\ UNCHANGED <<pipelines, run, pip, pipRun, procData, procRun,
                   batch, streamData>>

\* TransactionStream.process_batch(batch)
transaction_process_batch ==
    /\ streamRun' = Ran("transaction_process_batch",
                        TransactionProcessBatch(batch))
    /\ UNCHANGED <<pipelines, run, pip, pipRun, procData, procRun,
                   batch, streamData>>

\* EventStream.process_batch(batch)
event_process_batch ==
    /\ streamRun' = Ran("event_process_batch", EventProcessBatch(batch))
    /\ UNCHANGED <<pipelines, run, pip, pipRun, procData, procRun,
                   batch, streamData>>

\* stream.filter_data(batch, criteria), as DataStream defines it
filter_data(criteria) ==
    /\ streamRun' = Ran("filter_data",
                        StreamOut("none", DataStreamFilter(batch, criteria),
                                  <<>>, AtomNone, <<>>))
    /\ UNCHANGED <<pipelines, run, pip, pipRun, procData, procRun,
                   batch, streamData>>

\* StreamProcessor.polymorphic_process(data, streams)
polymorphic_process ==
    /\ LET r == PolymorphicProcess(streamData)
       IN /\ streamData' = r.data
          /\ streamRun' = Ran("polymorphic_process",
                              StreamOut(r.exc, <<>>, r.nums, AtomNone, <<>>))
    /\ UNCHANGED <<pipelines, run, pip, pipRun, procData, procRun, batch>>

NextStream ==
    \/ sensor_process_batch
    \/ transaction_filter_data
    \/ transaction_process_batch
    \/ event_process_batch
    \/ \E c \in Criteria : filter_data(c)
    \/ polymorphic_process

SpecStream == InitStream /\ [][NextStream]_vars

(***************************************************************************)
(* Claims about the manager (checked under Spec).                          *)
(***************************************************************************)
ProcessedData == run.op = "process_data"

Invoked(k) == \E c \in 1..Len(run.calls) : run.calls[c].idx = k

\* The pipeline of call c failed: it raised, or it reported a failing stage.
Failed(c) == run.calls[c].exc # "none" \/ run.calls[c].stageErr # 0

\* Every pipeline has a record of its own: the data is broadcast, or it is a
\* sequence at least as long as the pipeline list.
EveryPipelineHasRecord ==
    /\ run.data.t \in {"str", "list"}
    /\ PyLen(run.data) <= 1 \/ PyLen(run.data) >= Len(pipelines)

\* C1: when pipeline pk raises or reports a failure while processing its
\* record, process_data does not raise and still invokes every pipeline pj
\* with j > k.
C1_FailureIsolation ==
    (ProcessedData /\ EveryPipelineHasRecord) =>
        \A c \in 1..Len(run.calls) :
            Failed(c) =>
                /\ run.raised = "none"
                /\ \A j \in (run.calls[c].idx + 1)..Len(pipelines) : Invoked(j)

NoRaisingPipeline ==
    \A k \in 1..Len(pipelines) : pipelines[k].kind \notin RaisingKinds

Min(a, b) == IF a < b THEN a ELSE b

\* C3: given an indexable sequence of length L > 1 and n pipelines, pipeline
\* i receives exactly element i for every i < min(L, n), no pipeline is
\* invoked beyond min(L, n), and no exception is raised, also when n > L.
C3_PositionalPairing ==
    (/\ ProcessedData
     /\ run.data.t \in {"str", "list"}
     /\ PyLen(run.data) > 1
     /\ NoRaisingPipeline) =>
        /\ run.raised = "none"
        /\ Len(run.calls) = Min(PyLen(run.data), Len(pipelines))
        /\ \A c \in 1..Len(run.calls) :
              /\ run.calls[c].idx = c
              /\ run.calls[c].arg = GetItem(run.data, c - 1).val

\* One Record, as opposed to a record set: a dict, a string or a value of one
\* element.
SingleRecord(d) == d.t \in {"dict", "str"} \/ (HasLen(d) /\ PyLen(d) = 1)

\* C4: given a single Record, every managed pipeline is invoked exactly once,
\* in registration order, each with that same whole Record.
C4_Broadcast ==
    (ProcessedData /\ SingleRecord(run.data) /\ NoRaisingPipeline) =>
        /\ run.raised = "none"
        /\ Len(run.calls) = Len(pipelines)
        /\ \A c \in 1..Len(run.calls) :
              /\ run.calls[c].idx = c
              /\ run.calls[c].arg = run.data

\* C5: given None or a bare number, process_data prints "no data received"
\* exactly once, invokes no pipeline, leaves the pipeline list as it was and
\* does not raise.
C5_NoDataReceived ==
    (ProcessedData /\ run.data.t \in {"none", "int"}) =>
        /\ run.printed = <<NoDataMsg>>
        /\ run.calls = <<>>
        /\ pipelines = run.before
        /\ run.raised = "none"

C5_Witness ==
    /\ ProcessedData
    /\ run.data = PyNone
    /\ Len(pipelines) = MaxPipelines
    /\ run.printed = <<NoDataMsg>>

(***************************************************************************)
(* Claims about one pipeline (checked under SpecPipeline).                 *)
(***************************************************************************)
\* The first stage, from k on, whose result on the data is falsy; 0 if none.
RECURSIVE FirstFailing(_, _, _)
FirstFailing(stages, data, k) ==
    IF k > Len(stages) THEN 0
    ELSE IF ~Truthy(StageProcess(stages[k], data)) THEN k
         ELSE FirstFailing(stages, data, k + 1)

\* C2: when stage k is the first stage to fail, a concrete pipeline runs
\* stages 1..k in order and no other, reports stage index k, does not run the
\* adapter behaviour and returns None without raising.
C2_ShortCircuit ==
    (pipRun.op = "process" /\ pip.kind \in AdapterKinds) =>
        LET k == FirstFailing(pip.stages, pipRun.data, 1)
        IN k # 0 =>
              /\ pipRun.stageCalls = [i \in 1..k |-> i]
              /\ pipRun.stageErr = k
              /\ ~pipRun.adapter
              /\ pipRun.ret = PyNone
              /\ pipRun.exc = "none"

(***************************************************************************)
(* Claims about the processors (checked under SpecProcessor).              *)
(***************************************************************************)
\* C6: validation never raises: for every batch or text, malformed ones
\* included, every validator returns a boolean and every process call returns
\* a result or a failure value; no exception escapes either.
C6_ValidationNeverRaises ==
    Iterable(procData) =>
    /\ procRun.op = "validate" =>
          (procRun.exc = "none" /\ procRun.ret.t = "bool")
    /\ procRun.op = "process" =>
          (procRun.exc = "none" /\ procRun.ret.t \in {"str", "none"})

(***************************************************************************)
(* Claims about the streams (checked under SpecStream).                    *)
(***************************************************************************)
IsErrorText(text) == Len(text) >= 1 /\ text[1] = "Error: "

BadReading(x) == ~IsNumber(x) \/ x.n < 0

Retainable ==
    {i \in 1..Len(batch) :
        /\ batch[i].t \in {"int", "bool"}
        /\ batch[i].n # 0
        /\ batch[i].n > -TxLimit
        /\ batch[i].n < TxLimit}

\* The j-th smallest member of a set of positions.
Nth(S, j) == CHOOSE i \in S : Cardinality({m \in S : m < i}) = j - 1

\* C8: TransactionStream.filter_data never raises; what it returns holds no
\* 0, no item that is not an integer and no value outside (-10000, 10000),
\* and holds every nonzero integer of the batch inside the interval, in the
\* order of the batch.
C8_TransactionFilter ==
    streamRun.op = "transaction_filter_data" =>
        /\ streamRun.exc = "none"
        /\ \A j \in 1..Len(streamRun.out) :
              /\ streamRun.out[j].t \in {"int", "bool"}
              /\ streamRun.out[j].n # 0
              /\ streamRun.out[j].n > -TxLimit
              /\ streamRun.out[j].n < TxLimit
        /\ Len(streamRun.out) = Cardinality(Retainable)
        /\ \A j \in 1..Len(streamRun.out) :
              streamRun.out[j] = batch[Nth(Retainable, j)]

C8_Witness ==
    /\ streamRun.op = "transaction_filter_data"
    /\ batch = <<AtomInt(75), AtomStr(ErrorWord), AtomInt(TxLimit)>>
    /\ streamRun.out = <<AtomInt(75)>>

RECURSIVE SumOver(_)
SumOver(S) ==
    IF S = {} THEN 0
    ELSE LET i == CHOOSE i \in S : TRUE IN batch[i].n + SumOver(S \ {i})

DigitValue(c) == CHOOSE d \in 0..9 : DigitChar(d) = c

\* The number a sequence of digit characters reads as; -1 if it is no such
\* sequence.
RECURSIVE ParseNat(_)
ParseNat(c) ==
    IF c = <<>> \/ \E i \in 1..Len(c) : c[i] \notin Digits THEN -1
    ELSE IF Len(c) = 1 THEN DigitValue(c[1])
    ELSE 10 * ParseNat(SubSeq(c, 1, Len(c) - 1)) + DigitValue(c[Len(c)])

\* The position of the first token tok in a text.
IndexOf(text, tok) ==
    CHOOSE i \in 1..Len(text) :
        text[i] = tok /\ \A m \in 1..(i - 1) : text[m] # tok

\* The tokens between the label " operations, net flow: " and " units".
FlowTokens ==
    LET a == IndexOf(streamRun.text, " operations, net flow: ")
        b == IndexOf(streamRun.text, " units")
    IN SubSeq(streamRun.text, a + 1, b - 1)

\* C9: TransactionStream.process_batch reports as operation count the number
\* of retained items and as net flow their signed sum; the net flow is
\* written with a leading "+" exactly when it is >= 0 (0 for an empty
\* retained batch included) and with only its "-" when it is negative.
C9_NetFlow ==
    streamRun.op = "transaction_process_batch" =>
        LET net == SumOver(Retainable)
        IN /\ streamRun.exc = "none"
           /\ streamRun.nums = <<Cardinality(Retainable), net>>
           /\ ParseNat(SubSeq(streamRun.text, 2,
                  IndexOf(streamRun.text, " operations, net flow: ") - 1))
                 = Cardinality(Retainable)
           /\ (Head(FlowTokens) = "+") <=> (net >= 0)
           /\ net >= 0 => ParseNat(Tail(FlowTokens)) = net
           /\ net < 0 =>
                 (Head(FlowTokens) = "-" /\ ParseNat(Tail(FlowTokens)) = -net)

C9_Witness ==
    /\ streamRun.op = "transaction_process_batch"
    /\ batch = <<AtomInt(0), AtomInt(TxLimit), AtomStr(ErrorWord)>>
    /\ streamRun.out = <<>>
    /\ FlowTokens = <<"+", "0">>

StringPositions == {i \in 1..Len(batch) : batch[i].t = "str"}

ErrorPositions == {i \in StringPositions : batch[i].chars = ErrorWord}

\* The word written after a count is singular: no "s" follows it.
Singular(word) ==
    LET p == IndexOf(streamRun.text, word)
    IN streamRun.text[p + 1] # "s"

\* C10: EventStream.process_batch counts as events exactly the str items of
\* the batch and as errors exactly those equal to "error", so that
\* errors <= events <= len(batch); each count is written with the singular
\* word exactly when it is 1, and with the plural otherwise, 0 included.
C10_EventCounts ==
    streamRun.op = "event_process_batch" =>
        LET events == Cardinality(StringPositions)
            errors == Cardinality(ErrorPositions)
        IN /\ streamRun.exc = "none"
           /\ streamRun.nums = <<events, errors>>
           /\ streamRun.nums[2] <= streamRun.nums[1]
           /\ streamRun.nums[1] <= Len(batch)
           /\ ParseNat(SubSeq(streamRun.text, 2,
                  IndexOf(streamRun.text, " ") - 1)) = events
           /\ Singular("event") <=> (events = 1)
           /\ Singular("error") <=> (errors = 1)

C10_Witness ==
    /\ streamRun.op = "event_process_batch"
    /\ batch = <<AtomStr(LoginWord), AtomInt(75), AtomStr(ErrorWord)>>
    /\ streamRun.nums = <<2, 1>>
    /\ ~Singular("event")
    /\ Singular("error")

\* A step of filter_data, under any criterion or as TransactionStream
\* defines it.
FilterStep == streamRun'.op \in {"filter_data", "transaction_filter_data"}

\* C11: for every batch B and every filter (the 'string', 'number' and 'int'
\* criteria, no criterion, the transaction range filter), the admitted batch
\* and the rejected count derived as polymorphic_process derives it satisfy
\* len(admitted) + rejectedCount = len(B) with rejectedCount >= 0, and B keeps
\* its contents; the counts polymorphic_process itself reports obey the same
\* equation for the entries it filters.
C11_FilterConservation ==
    [][/\ FilterStep =>
             LET rejected == RejectedCount(ft_len(batch),
                                           ft_len(streamRun'.out))
             IN /\ streamRun'.exc = "none"
                /\ Len(streamRun'.out) + rejected = Len(batch)
                /\ rejected >= 0
                /\ batch' = batch
       /\ streamRun'.op = "polymorphic_process" =>
             /\ streamRun'.exc = "none"
             /\ Len(streamData'.Transaction) + streamRun'.nums[4]
                   = Len(streamData.Transaction)
             /\ Len(streamData'.Event) + streamRun'.nums[5]
                   = Len(streamData.Event)
             /\ streamRun'.nums[4] >= 0
             /\ streamRun'.nums[5] >= 0
             /\ batch' = batch]_vars

C11_Witness ==
    /\ streamRun.op = "polymorphic_process"
    /\ batch = <<AtomInt(75), AtomStr(ErrorWord), AtomInt(TxLimit)>>
    /\ streamData.Transaction = <<AtomInt(75)>>
    /\ streamData.Event = <<AtomStr(ErrorWord)>>
    /\ streamRun.nums = <<3, 1, 1, 2, 2>>

====
